---- MODULE Spec2Model ----
(***************************************************************************)
(* Model of wechat/param.go: the certificate registration of the WeChat    *)
(* pay client (AddCertFilePath and its wrappers, checkCertFilePath,        *)
(* addCertConfig, the w.certificate cache guarded by w.mu) and the         *)
(* signing functions (getReleaseSign, getSignBoxSign, getSanBoxKey,        *)
(* getSanBoxSignKey).                                                      *)
(*                                                                         *)
(* Three specifications share the module:                                  *)
(*   SeqSpec   one caller, every call of the credential API atomic;        *)
(*   ConcSpec  several goroutines, one step per lock operation and per     *)
(*             memory access of the credential;                            *)
(*   SignSpec  the signature functions applied to bounded inputs.          *)
(***************************************************************************)
EXTENDS Integers, Sequences, FiniteSets, TLC

VARIABLES
    w,          \* SeqSpec: the Client, [certificate, MchId]
    last,       \* SeqSpec: the call that has just returned, with its results
    registered, \* SeqSpec: history, the material of the latest successful registration
    certPtr,    \* ConcSpec: w.certificate, an address of heap or NilAddr
    heap,       \* ConcSpec: address -> tls.Certificate being built or published
    mu,         \* ConcSpec: w.mu, [writer, readers]
    th,         \* ConcSpec: goroutine -> its call frame
    hist,       \* ConcSpec: history of the stores into w.certificate
    call        \* SignSpec: the signing call that has just returned

vars == <<w, last, registered, certPtr, heap, mu, th, hist, call>>
seqVars == <<w, last, registered>>
concVars == <<certPtr, heap, mu, th, hist>>
signVars == <<call>>

(***************************************************************************)
(* Bounds.                                                                 *)
(***************************************************************************)
NumIdentities == 2      \* distinct merchant key pairs that exist
NumThreads == 2         \* goroutines sharing one Client
MaxCalls == 3           \* calls the goroutines make altogether
Identities == 1..NumIdentities

(***************************************************************************)
(* Go values.                                                              *)
(***************************************************************************)
\* interface{} arguments: the nil interface, a string, a []byte, another type.
\* A nil []byte passed as interface{} is Bytes(NilBytes), not NilIface.
NULL == [name |-> "", id |-> 0]
NilBytes == [isnil |-> TRUE, blocks |-> <<>>]
Data(blocks) == [isnil |-> FALSE, blocks |-> blocks]
NilIface == [kind |-> "nil", str |-> NULL, bytes |-> NilBytes]
Str(p) == [kind |-> "string", str |-> p, bytes |-> NilBytes]
Bytes(b) == [kind |-> "bytes", str |-> NULL, bytes |-> b]
Other == [kind |-> "other", str |-> NULL, bytes |-> NilBytes]

\* errors: op is the prefix fmt.Errorf puts before the wrapped cause
NoErr == [op |-> "", msg |-> "", path |-> NULL]
Err(op, msg) == [op |-> op, msg |-> msg, path |-> NULL]
PathErr(msg, p) == [op |-> "", msg |-> msg, path |-> p]
Wrap(op, e) == [op |-> op, msg |-> e.msg, path |-> e.path]

\* byte contents: a sequence of blocks; a PEM block has a type and the identity
\* of the key pair it belongs to, a PKCS#12 archive its passphrase as well
Block(type, id) == [type |-> type, id |-> id, pass |-> ""]
CertPem(i) == Data(<<Block("CERTIFICATE", i)>>)
KeyPem(i) == Data(<<Block("PRIVATE KEY", i)>>)
Pfx(i, pass) == Data(<<[type |-> "PFX", id |-> i, pass |-> pass]>>)

MchIdOfClient == "mch1"

\* the file system
CertPath(i) == [name |-> "apiclient_cert.pem", id |-> i]
KeyPath(i) == [name |-> "apiclient_key.pem", id |-> i]
PfxPath(i) == [name |-> "apiclient_cert.p12", id |-> i]
Missing == [name |-> "missing", id |-> 0]
Dir == [name |-> "dir", id |-> 0]

ReadFile(p) ==
    CASE p.name = "apiclient_cert.pem" -> [data |-> CertPem(p.id), err |-> NoErr]
      [] p.name = "apiclient_key.pem" -> [data |-> KeyPem(p.id), err |-> NoErr]
      [] p.name = "apiclient_cert.p12" -> [data |-> Pfx(p.id, MchIdOfClient), err |-> NoErr]
      [] p.name = "dir" -> [data |-> Data(<<>>), err |-> PathErr("is a directory", p)]
      [] OTHER -> [data |-> NilBytes, err |-> PathErr("no such file or directory", p)]

\* tls.Certificate, *tls.Certificate and *tls.Config
Certificate(chain, key) == [Certificate |-> chain, PrivateKey |-> key]
NilPtr == [isnil |-> TRUE, val |-> Certificate(<<>>, 0)]
Ptr(c) == [isnil |-> FALSE, val |-> c]
NilConfig == [isnil |-> TRUE, Certificates |-> <<>>, InsecureSkipVerify |-> FALSE]
Config(c) == [isnil |-> FALSE, Certificates |-> <<c>>, InsecureSkipVerify |-> TRUE]

(***************************************************************************)
(* Library functions the loader calls.                                     *)
(***************************************************************************)
IsKeyBlock(b) == b.type = "PRIVATE KEY"
IsCertBlock(b) == b.type = "CERTIFICATE"

\* tls.X509KeyPair: every CERTIFICATE block of certPEM is the chain, the first
\* private-key block of keyPEM is the key, other blocks are skipped, and the
\* key must belong to the leaf (first) certificate.
X509KeyPair(certPEM, keyPEM) ==
    LET certs == SelectSeq(certPEM.blocks, IsCertBlock)
        keys == SelectSeq(keyPEM.blocks, IsKeyBlock)
    IN  IF certs = <<>>
        THEN [cert |-> Certificate(<<>>, 0),
              err |-> Err("", "tls: failed to find any PEM data in certificate input")]
        ELSE IF keys = <<>>
        THEN [cert |-> Certificate(<<>>, 0),
              err |-> Err("", "tls: failed to find any PEM data in key input")]
        ELSE IF keys[1].id # certs[1].id
        THEN [cert |-> Certificate(<<>>, 0),
              err |-> Err("", "tls: private key does not match public key")]
        ELSE [cert |-> Certificate([n \in 1..Len(certs) |-> certs[n].id], keys[1].id),
              err |-> NoErr]

\* pkcs12.ToPEM: the archive decrypted with the password, as PEM blocks
ToPEM(pfxData, password) ==
    IF Len(pfxData.blocks) = 1 /\ pfxData.blocks[1].type = "PFX"
    THEN IF pfxData.blocks[1].pass = password
         THEN [blocks |-> <<Block("CERTIFICATE", pfxData.blocks[1].id),
                            Block("PRIVATE KEY", pfxData.blocks[1].id)>>,
               err |-> NoErr]
         ELSE [blocks |-> <<>>, err |-> Err("", "pkcs12: decryption password incorrect")]
    ELSE [blocks |-> <<>>, err |-> Err("", "pkcs12: error reading P12 data")]

\* pem.EncodeToMemory of every block, appended (lines 128-130); appending
\* nothing to the nil keyPem leaves it nil
EncodeBlocks(blocks) == IF blocks = <<>> THEN NilBytes ELSE Data(blocks)

(***************************************************************************)
(* checkCertFilePath: the set of errors it can return ({NoErr} when it     *)
(* accepts); the range over the map visits cert and key in either order.   *)
(***************************************************************************)
CheckVar(varName, v) ==
    CASE v.kind = "string" ->
            IF v.str = NULL THEN Err("check", varName \o " is empty") ELSE NoErr
      [] v.kind = "bytes" ->
            IF Len(v.bytes.blocks) = 0 THEN Err("check", varName \o " is empty") ELSE NoErr
      [] OTHER -> Err("check", varName \o " type error")

checkCertFilePath(certFilePath, keyFilePath, pkcs12FilePath) ==
    IF certFilePath.kind = "nil" /\ keyFilePath.kind = "nil" /\ pkcs12FilePath.kind = "nil"
    THEN {NoErr}
    ELSE IF certFilePath.kind # "nil" /\ keyFilePath.kind # "nil"
    THEN LET bad == {CheckVar("certFilePath", certFilePath),
                     CheckVar("keyFilePath", keyFilePath)} \ {NoErr}
         IN  IF bad = {} THEN {NoErr} ELSE bad
    ELSE IF pkcs12FilePath.kind # "nil"
    THEN {CheckVar("pkcs12FilePath", pkcs12FilePath)}
    ELSE {Err("check", "certFilePath keyFilePath must all nil or all not nil")}

(***************************************************************************)
(* addCertConfig, for a client whose cache and merchant id are given.      *)
(***************************************************************************)
\* lines 102-106 and 107-111: a []byte is used as it is, anything else is
\* asserted to be a string and read from disk; err is assigned only by a read
LoadPem(file, errBefore) ==
    CASE file.kind = "bytes" -> [data |-> file.bytes, err |-> errBefore, panic |-> FALSE]
      [] file.kind = "string" ->
            [data |-> ReadFile(file.str).data, err |-> ReadFile(file.str).err, panic |-> FALSE]
      [] OTHER -> [data |-> NilBytes, err |-> errBefore, panic |-> TRUE]

PanicErr == Err("panic", "interface conversion")

\* mutant: line 143 returns no error
NotAllNilErr_Nil == NoErr

\* line 143
NotAllNilErr == Err("", "cert files must all nil or all not nil")

\* lines 133-143
ParsePair(certPem, keyPem) ==
    IF ~certPem.isnil /\ ~keyPem.isnil
    THEN LET kp == X509KeyPair(certPem, keyPem)
         IN  IF kp.err # NoErr
             THEN [tlsConfig |-> NilConfig, err |-> Wrap("tls.LoadX509KeyPair", kp.err)]
             ELSE [tlsConfig |-> Config(kp.cert), err |-> NoErr]
    ELSE [tlsConfig |-> NilConfig, err |-> NotAllNilErr]

\* lines 115-132
LoadPkcs12(pkcs12File, mchId) ==
    LET rd == LoadPem(pkcs12File, NoErr)
    IN  IF rd.panic THEN [tlsConfig |-> NilConfig, err |-> PanicErr]
        ELSE IF rd.err # NoErr
        THEN [tlsConfig |-> NilConfig, err |-> Wrap("ioutil.ReadFile", rd.err)]
        ELSE LET pem == ToPEM(rd.data, mchId)
             IN  IF pem.err # NoErr
                 THEN [tlsConfig |-> NilConfig, err |-> Wrap("pkcs12.ToPEM", pem.err)]
                 ELSE ParsePair(EncodeBlocks(pem.blocks), EncodeBlocks(pem.blocks))

\* lines 101-114
LoadPemPair(certFile, keyFile) ==
    LET c == LoadPem(certFile, NoErr)
        k == LoadPem(keyFile, c.err)
    IN  IF c.panic \/ k.panic THEN [tlsConfig |-> NilConfig, err |-> PanicErr]
        ELSE IF k.err # NoErr
        THEN [tlsConfig |-> NilConfig, err |-> Wrap("ioutil.ReadFile", k.err)]
        ELSE ParsePair(c.data, k.data)

\* lines 97-144: the part of addCertConfig that builds a config from its arguments
BuildConfig(certFile, keyFile, pkcs12File, mchId) ==
    IF certFile.kind # "nil" /\ keyFile.kind # "nil"
    THEN LoadPemPair(certFile, keyFile)
    ELSE IF pkcs12File.kind # "nil"
    THEN LoadPkcs12(pkcs12File, mchId)
    ELSE ParsePair(NilBytes, NilBytes)

AllNil(certFile, keyFile, pkcs12File) ==
    certFile.kind = "nil" /\ keyFile.kind = "nil" /\ pkcs12File.kind = "nil"

\* mutant: lines 85-95 missing, the cached certificate is never reused
addCertConfig_NoCache(client, certFile, keyFile, pkcs12File) ==
    BuildConfig(certFile, keyFile, pkcs12File, client.MchId)

addCertConfig(client, certFile, keyFile, pkcs12File) ==
    IF AllNil(certFile, keyFile, pkcs12File) /\ ~client.certificate.isnil
    THEN [tlsConfig |-> Config(client.certificate.val), err |-> NoErr]
    ELSE BuildConfig(certFile, keyFile, pkcs12File, client.MchId)

(***************************************************************************)
(* AddCertFilePath: the set of its outcomes [err, client], one for each    *)
(* error the validation can return.                                        *)
(***************************************************************************)
\* mutant: a failed load clears the cached certificate
AddCertFilePath_ClearsOnError(client, certFilePath, keyFilePath, pkcs12FilePath) ==
    LET cfg == addCertConfig(client, certFilePath, keyFilePath, pkcs12FilePath)
    IN  { IF e # NoErr THEN [err |-> e, client |-> client]
          ELSE IF cfg.err # NoErr \/ cfg.tlsConfig.isnil
          THEN [err |-> cfg.err, client |-> [client EXCEPT !.certificate = NilPtr]]
          ELSE [err |-> NoErr,
                client |-> [client EXCEPT !.certificate = Ptr(cfg.tlsConfig.Certificates[1])]]
          : e \in checkCertFilePath(certFilePath, keyFilePath, pkcs12FilePath) }

AddCertFilePath(client, certFilePath, keyFilePath, pkcs12FilePath) ==
    LET cfg == addCertConfig(client, certFilePath, keyFilePath, pkcs12FilePath)
    IN  { IF e # NoErr THEN [err |-> e, client |-> client]
          ELSE IF cfg.err # NoErr THEN [err |-> cfg.err, client |-> client]
          ELSE IF cfg.tlsConfig.isnil
          THEN [err |-> Err("panic", "nil pointer dereference"), client |-> client]
          ELSE [err |-> NoErr,
                client |-> [client EXCEPT !.certificate = Ptr(cfg.tlsConfig.Certificates[1])]]
          : e \in checkCertFilePath(certFilePath, keyFilePath, pkcs12FilePath) }

\* a []byte parameter handed on as interface{}
AddCertFileContent(client, certFileContent, keyFileContent, pkcs12FileContent) ==
    AddCertFilePath(client, Bytes(certFileContent), Bytes(keyFileContent),
                    Bytes(pkcs12FileContent))

AddCertPemFileContent(client, certFileContent, keyFileContent) ==
    AddCertFilePath(client, Bytes(certFileContent), Bytes(keyFileContent), NilIface)

AddCertPkcs12FileContent(client, pkcs12FileContent) ==
    AddCertFilePath(client, NilIface, NilIface, Bytes(pkcs12FileContent))

(***************************************************************************)
(* SeqSpec: one caller.                                                    *)
(***************************************************************************)
\* byte contents and interface{} arguments the caller chooses from; the files
\* on disk are those of identity 1
CertContents == {NilBytes} \cup {CertPem(i) : i \in Identities}
KeyContents == {NilBytes} \cup {KeyPem(i) : i \in Identities}
PfxContents == {NilBytes, Pfx(1, "mch2")} \cup {Pfx(i, MchIdOfClient) : i \in Identities}

CertArgs == {NilIface, Str(NULL), Str(Missing), Str(Dir), Str(CertPath(1))}
                \cup {Bytes(b) : b \in CertContents}
KeyArgs == {NilIface, Other, Str(Missing), Str(KeyPath(1))}
               \cup {Bytes(b) : b \in KeyContents}
PfxArgs == {NilIface, Other, Str(NULL), Str(Missing), Str(PfxPath(1))}
               \cup {Bytes(b) : b \in PfxContents}

NoCall == [op |-> "none", certFile |-> NilIface, keyFile |-> NilIface,
           pkcs12File |-> NilIface, err |-> NoErr, tlsConfig |-> NilConfig,
           before |-> NilPtr]

Returned(op, c, k, p, err, cfg) ==
    [op |-> op, certFile |-> c, keyFile |-> k, pkcs12File |-> p, err |-> err,
     tlsConfig |-> cfg, before |-> w.certificate]

\* What the caller handed over, read off the arguments alone: a PEM pair of
\* identity i with no PKCS#12 argument, or an archive of identity i alone.
PairOf(i) == Certificate(<<i>>, i)
ValidPemPair(c, k, i) ==
    /\ c \in {Bytes(CertPem(i)), Str(CertPath(i))}
    /\ k \in {Bytes(KeyPem(i)), Str(KeyPath(i))}
ValidPfx(p, i) == p \in {Bytes(Pfx(i, MchIdOfClient)), Str(PfxPath(i))}

Material(c, k, p) ==
    IF p.kind = "nil" /\ \E i \in Identities : ValidPemPair(c, k, i)
    THEN [kind |-> "pem", id |-> CHOOSE i \in Identities : ValidPemPair(c, k, i)]
    ELSE IF c.kind = "nil" /\ k.kind = "nil" /\ \E i \in Identities : ValidPfx(p, i)
    THEN [kind |-> "pkcs12", id |-> CHOOSE i \in Identities : ValidPfx(p, i)]
    ELSE [kind |-> "mixed", id |-> 0]

\* the history variable: a successful call with arguments replaces it
Register(c, k, p, err) ==
    registered' = IF err = NoErr /\ ~AllNil(c, k, p) THEN Material(c, k, p)
                  ELSE registered

SeqInit ==
    /\ w = [certificate |-> NilPtr, MchId |-> MchIdOfClient]
    /\ last = NoCall
    /\ registered = [kind |-> "none", id |-> 0]

CallAddCertFilePath ==
    \E c \in CertArgs, k \in KeyArgs, p \in PfxArgs :
        \E r \in AddCertFilePath(w, c, k, p) :
            /\ w' = r.client
            /\ last' = Returned("AddCertFilePath", c, k, p, r.err, NilConfig)
            /\ Register(c, k, p, r.err)

CallAddCertFileContent ==
    \E c \in CertContents, k \in KeyContents, p \in PfxContents :
        \E r \in AddCertFileContent(w, c, k, p) :
            /\ w' = r.client
            /\ last' = Returned("AddCertFileContent", Bytes(c), Bytes(k), Bytes(p),
                                r.err, NilConfig)
            /\ Register(Bytes(c), Bytes(k), Bytes(p), r.err)

CallAddCertPemFileContent ==
    \E c \in CertContents, k \in KeyContents :
        \E r \in AddCertPemFileContent(w, c, k) :
            /\ w' = r.client
            /\ last' = Returned("AddCertPemFileContent", Bytes(c), Bytes(k), NilIface,
                                r.err, NilConfig)
            /\ Register(Bytes(c), Bytes(k), NilIface, r.err)

CallAddCertPkcs12FileContent ==
    \E p \in PfxContents :
        \E r \in AddCertPkcs12FileContent(w, p) :
            /\ w' = r.client
            /\ last' = Returned("AddCertPkcs12FileContent", NilIface, NilIface, Bytes(p),
                                r.err, NilConfig)
            /\ Register(NilIface, NilIface, Bytes(p), r.err)

\* the request paths' addCertConfig(nil, nil, nil)
CallAddCertConfig ==
    LET r == addCertConfig(w, NilIface, NilIface, NilIface)
    IN  /\ w' = w
        /\ last' = Returned("addCertConfig", NilIface, NilIface, NilIface, r.err,
                            r.tlsConfig)
        /\ UNCHANGED registered

SeqNext ==
    \/ CallAddCertFilePath /\ UNCHANGED <<concVars, signVars>>
    \/ CallAddCertFileContent /\ UNCHANGED <<concVars, signVars>>
    \/ CallAddCertPemFileContent /\ UNCHANGED <<concVars, signVars>>
    \/ CallAddCertPkcs12FileContent /\ UNCHANGED <<concVars, signVars>>
    \/ CallAddCertConfig /\ UNCHANGED <<concVars, signVars>>

(***************************************************************************)
(* ConcSpec: goroutines sharing one Client.  A step is a lock operation or *)
(* one access to the memory of a tls.Certificate; a struct is copied and   *)
(* built field by field.                                                   *)
(***************************************************************************)
Threads == 1..NumThreads
NilAddr == 0
Unset == Certificate(<<>>, 0)

NoFrame == [pc |-> "idle", op |-> "none", id |-> 0, addr |-> NilAddr, val |-> Unset,
            err |-> NoErr, result |-> NilConfig, seen |-> {}]

\* the cells still referenced, by the cache or by a running call
Collect(h, ptr, frames) ==
    [a \in {x \in DOMAIN h : x = ptr \/ \E t \in Threads : frames[t].addr = x} |-> h[a]]

FreshAddr == CHOOSE a \in 1..(Cardinality(DOMAIN heap) + 1) :
                 a \notin DOMAIN heap /\ \A x \in 1..(a - 1) : x \in DOMAIN heap

\* mutant: the parsed certificate is written over the cached one
ParsedCertificateCell_InPlace == IF certPtr # NilAddr THEN certPtr ELSE FreshAddr

\* lines 137-140: the parsed certificate goes into a new Certificates slice
ParsedCertificateCell == FreshAddr
\* lines 89-92: so does the copy of *w.certificate
CopiedCertificateCell == FreshAddr

\* sync.RWMutex
CanRLock == mu.writer = 0
CanLock == mu.writer = 0 /\ mu.readers = {}

ConcInit ==
    /\ certPtr = NilAddr
    /\ heap = <<>>
    /\ mu = [writer |-> 0, readers |-> {}]
    /\ th = [t \in Threads |-> NoFrame]
    /\ hist = [cachedId |-> 0, newest |-> 0, owner |-> 0, returned |-> FALSE, calls |-> 0]

\* a new call frame; a request notes which credential is cached as it starts
Enter(t, op) ==
    [NoFrame EXCEPT !.op = op, !.seen = IF op = "get" THEN {hist.cachedId} ELSE {}]

\* AddCertFilePath(cert, key, nil) with PEM bytes: lines 52-54 and 97-136
BeginRegister(t) ==
    /\ th[t].pc = "idle" /\ hist.calls < MaxCalls
    /\ \E i \in Identities, j \in Identities :
          LET c == Bytes(CertPem(i))
              k == Bytes(KeyPem(j))
              cfg == BuildConfig(c, k, NilIface, MchIdOfClient)
          IN  /\ checkCertFilePath(c, k, NilIface) = {NoErr}
              /\ th' = [th EXCEPT ![t] =
                          IF cfg.err # NoErr
                          THEN [Enter(t, "register") EXCEPT !.err = cfg.err]
                          ELSE [Enter(t, "register") EXCEPT
                                    !.pc = "build1", !.id = i,
                                    !.val = cfg.tlsConfig.Certificates[1]]]
    /\ hist' = [hist EXCEPT !.calls = @ + 1]
    /\ UNCHANGED <<certPtr, heap, mu>>

\* lines 137-140, first field
Build1(t) ==
    /\ th[t].pc = "build1"
    /\ LET a == ParsedCertificateCell
       IN  /\ heap' = [x \in DOMAIN heap \cup {a} |->
                          IF x = a
                          THEN [(IF a \in DOMAIN heap THEN heap[a] ELSE Unset)
                                   EXCEPT !.Certificate = th[t].val.Certificate]
                          ELSE heap[x]]
           /\ th' = [th EXCEPT ![t].pc = "build2", ![t].addr = a]
    /\ UNCHANGED <<certPtr, mu, hist>>

\* lines 137-140, second field
Build2(t) ==
    /\ th[t].pc = "build2"
    /\ heap' = [heap EXCEPT ![th[t].addr].PrivateKey = th[t].val.PrivateKey]
    /\ th' = [th EXCEPT ![t].pc = "lock", ![t].val = Unset]
    /\ UNCHANGED <<certPtr, mu, hist>>

\* AddCertFilePath(nil, nil, nil): lines 52-54 accept it
BeginReuse(t) ==
    /\ th[t].pc = "idle" /\ hist.calls < MaxCalls
    /\ checkCertFilePath(NilIface, NilIface, NilIface) = {NoErr}
    /\ th' = [th EXCEPT ![t] = [Enter(t, "reuse") EXCEPT !.pc = "rlock"]]
    /\ hist' = [hist EXCEPT !.calls = @ + 1]
    /\ UNCHANGED <<certPtr, heap, mu>>

\* addCertConfig(nil, nil, nil) of a request
BeginGet(t) ==
    /\ th[t].pc = "idle" /\ hist.calls < MaxCalls
    /\ th' = [th EXCEPT ![t] = [Enter(t, "get") EXCEPT !.pc = "rlock"]]
    /\ hist' = [hist EXCEPT !.calls = @ + 1]
    /\ UNCHANGED <<certPtr, heap, mu>>

\* line 86
RLock(t) ==
    /\ th[t].pc = "rlock"
    /\ CanRLock
    /\ mu' = [mu EXCEPT !.readers = @ \cup {t}]
    /\ th' = [th EXCEPT ![t].pc = "nilcheck"]
    /\ UNCHANGED <<certPtr, heap, hist>>

\* line 88; with nothing cached the call falls through to line 143
NilCheck(t) ==
    /\ th[t].pc = "nilcheck"
    /\ th' = [th EXCEPT ![t] =
                IF certPtr # NilAddr
                THEN [@ EXCEPT !.pc = "copy1"]
                ELSE [@ EXCEPT !.pc = "runlock",
                               !.err = BuildConfig(NilIface, NilIface, NilIface,
                                                   MchIdOfClient).err]]
    /\ UNCHANGED <<certPtr, heap, mu, hist>>

\* line 90, *w.certificate: first field
Copy1(t) ==
    /\ th[t].pc = "copy1"
    /\ LET a == CopiedCertificateCell
       IN  /\ heap' = [x \in DOMAIN heap \cup {a} |->
                          IF x = a
                          THEN [Unset EXCEPT !.Certificate = heap[certPtr].Certificate]
                          ELSE heap[x]]
           /\ th' = [th EXCEPT ![t].pc = "copy2", ![t].addr = a,
                               ![t].id = hist.cachedId]
    /\ UNCHANGED <<certPtr, mu, hist>>

\* line 90, second field
Copy2(t) ==
    /\ th[t].pc = "copy2"
    /\ heap' = [heap EXCEPT ![th[t].addr].PrivateKey = heap[certPtr].PrivateKey]
    /\ th' = [th EXCEPT ![t].pc = "runlock"]
    /\ UNCHANGED <<certPtr, mu, hist>>

\* line 87, the deferred RUnlock, as addCertConfig returns; a request has its
\* config, AddCertFilePath goes on to line 56
RUnlock(t) ==
    /\ th[t].pc = "runlock"
    /\ mu' = [mu EXCEPT !.readers = @ \ {t}]
    /\ LET cfg == IF th[t].err = NoErr THEN Config(heap[th[t].addr]) ELSE NilConfig
           frames == [th EXCEPT ![t] =
                        IF th[t].op = "get" \/ th[t].err # NoErr
                        THEN [@ EXCEPT !.pc = "idle", !.addr = NilAddr, !.id = 0,
                                       !.result = cfg]
                        ELSE [@ EXCEPT !.pc = "lock"]]
       IN  /\ th' = frames
           /\ heap' = Collect(heap, certPtr, frames)
    /\ UNCHANGED <<certPtr, hist>>

\* line 59
Lock(t) ==
    /\ th[t].pc = "lock"
    /\ CanLock
    /\ mu' = [mu EXCEPT !.writer = t]
    /\ th' = [th EXCEPT ![t].pc = "store"]
    /\ UNCHANGED <<certPtr, heap, hist>>

\* line 60
Store(t) ==
    /\ th[t].pc = "store"
    /\ certPtr' = th[t].addr
    /\ LET frames == [u \in Threads |->
                        IF u = t
                        THEN [th[u] EXCEPT !.pc = "unlock", !.addr = NilAddr, !.id = 0]
                        ELSE IF th[u].op = "get" /\ th[u].pc # "idle"
                        THEN [th[u] EXCEPT !.seen = @ \cup {th[t].id}]
                        ELSE th[u]]
       IN  /\ th' = frames
           /\ heap' = Collect(heap, th[t].addr, frames)
    /\ hist' = IF th[t].op = "register"
               THEN [hist EXCEPT !.cachedId = th[t].id, !.newest = th[t].id,
                                 !.owner = t, !.returned = FALSE]
               ELSE [hist EXCEPT !.cachedId = th[t].id]
    /\ UNCHANGED mu

\* lines 61-62
Unlock(t) ==
    /\ th[t].pc = "unlock"
    /\ mu' = [mu EXCEPT !.writer = 0]
    /\ th' = [th EXCEPT ![t].pc = "idle"]
    /\ hist' = IF th[t].op = "register" /\ hist.owner = t
               THEN [hist EXCEPT !.returned = TRUE]
               ELSE hist
    /\ UNCHANGED <<certPtr, heap>>

ConcNext ==
    \/ \E t \in Threads : BeginRegister(t) /\ UNCHANGED <<seqVars, signVars>>
    \/ \E t \in Threads : Build1(t) /\ UNCHANGED <<seqVars, signVars>>
    \/ \E t \in Threads : Build2(t) /\ UNCHANGED <<seqVars, signVars>>
    \/ \E t \in Threads : BeginReuse(t) /\ UNCHANGED <<seqVars, signVars>>
    \/ \E t \in Threads : BeginGet(t) /\ UNCHANGED <<seqVars, signVars>>
    \/ \E t \in Threads : RLock(t) /\ UNCHANGED <<seqVars, signVars>>
    \/ \E t \in Threads : NilCheck(t) /\ UNCHANGED <<seqVars, signVars>>
    \/ \E t \in Threads : Copy1(t) /\ UNCHANGED <<seqVars, signVars>>
    \/ \E t \in Threads : Copy2(t) /\ UNCHANGED <<seqVars, signVars>>
    \/ \E t \in Threads : RUnlock(t) /\ UNCHANGED <<seqVars, signVars>>
    \/ \E t \in Threads : Lock(t) /\ UNCHANGED <<seqVars, signVars>>
    \/ \E t \in Threads : Store(t) /\ UNCHANGED <<seqVars, signVars>>
    \/ \E t \in Threads : Unlock(t) /\ UNCHANGED <<seqVars, signVars>>

(***************************************************************************)
(* The signing functions.  A digest is a term over its algorithm, its MAC  *)
(* key and the message; a Go string is a literal or the upper-case hex     *)
(* rendering of a digest, so that a signature and a key can be compared.   *)
(***************************************************************************)
SignType_MD5 == "MD5"
SignType_HMAC_SHA256 == "HMAC-SHA256"

NoDigest == [alg |-> "", mackey |-> "", msg |-> <<>>]
Lit(text) == [enc |-> "lit", text |-> text, digest |-> NoDigest]
MD5Sum(msg) == [alg |-> "MD5", mackey |-> "", msg |-> msg]
HmacSha256(key, msg) == [alg |-> "HMAC-SHA256", mackey |-> key, msg |-> msg]
\* strings.ToUpper(hex.EncodeToString(d))
UpperHex(d) == [enc |-> "HEX-UPPER", text |-> "", digest |-> d]

\* gopay.BodyMap.EncodeWeChatSignParams: the parameters with a value, without
\* the one named sign, in key order, and the key as the last term
EncodeWeChatSignParams(bm, apiKey) ==
    [params |-> {<<k, bm[k]>> : k \in {x \in DOMAIN bm : bm[x] # "" /\ x # "sign"}},
     key |-> apiKey]

\* mutant: MD5 only when asked for, HMAC-SHA256 otherwise
getReleaseSign_DefaultHmac(apiKey, signType, bm) ==
    IF signType = SignType_MD5
    THEN UpperHex(MD5Sum(EncodeWeChatSignParams(bm, apiKey)))
    ELSE UpperHex(HmacSha256(apiKey, EncodeWeChatSignParams(bm, apiKey)))

getReleaseSign(apiKey, signType, bm) ==
    IF signType = SignType_HMAC_SHA256
    THEN UpperHex(HmacSha256(apiKey, EncodeWeChatSignParams(bm, apiKey)))
    ELSE UpperHex(MD5Sum(EncodeWeChatSignParams(bm, apiKey)))

\* the reply of the sandbox key endpoint as xhttp hands it over
TransportFailure == [errs |-> <<Err("xhttp", "connection refused")>>, ReturnCode |-> "",
                     ReturnMsg |-> "", SandboxSignkey |-> ""]
Reply(code, msg, key) ==
    [errs |-> <<>>, ReturnCode |-> code, ReturnMsg |-> msg, SandboxSignkey |-> key]

\* mutant: the status of the reply is not looked at
getSanBoxSignKey_IgnoresFail(mchId, nonceStr, sign, reply) ==
    IF Len(reply.errs) > 0
    THEN [key |-> Lit(""), err |-> reply.errs[1]]
    ELSE [key |-> Lit(reply.SandboxSignkey), err |-> NoErr]

getSanBoxSignKey(mchId, nonceStr, sign, reply) ==
    IF Len(reply.errs) > 0
    THEN [key |-> Lit(""), err |-> reply.errs[1]]
    ELSE IF reply.ReturnCode = "FAIL"
    THEN [key |-> Lit(""), err |-> Err("", reply.ReturnMsg)]
    ELSE [key |-> Lit(reply.SandboxSignkey), err |-> NoErr]

\* lines 227-230 and 244-250: what is posted
SignKeyRequest(mchId, nonceStr, sign) ==
    [mch_id |-> mchId, nonce_str |-> nonceStr, sign |-> sign]

getSanBoxKey(mchId, nonceStr, apiKey, signType, reply) ==
    LET bm == [k \in {"mch_id", "nonce_str"} |-> IF k = "mch_id" THEN mchId ELSE nonceStr]
    IN  getSanBoxSignKey(mchId, nonceStr, getReleaseSign(apiKey, signType, bm), reply)

getSignBoxSign(mchId, apiKey, bm, nonceStr, reply) ==
    LET k == getSanBoxKey(mchId, nonceStr, apiKey, SignType_MD5, reply)
    IN  IF k.err # NoErr
        THEN [sign |-> Lit(""), err |-> k.err]
        ELSE [sign |-> UpperHex(MD5Sum(EncodeWeChatSignParams(bm, k.key))),
              err |-> NoErr]

(***************************************************************************)
(* SignSpec: the signing functions on bounded inputs.                      *)
(***************************************************************************)
ApiKeys == {"apikey1", "apikey2"}
SignTypes == {SignType_MD5, SignType_HMAC_SHA256, "", "SHA1"}
BodyMaps == [{"appid", "sign"} -> {"", "1", "2"}]
Nonces == {"nonce1", "nonce2"}
Replies == {TransportFailure}
               \cup {Reply("FAIL", m, "") : m \in {"ERRCODE:SIGNERROR", "system busy"}}
               \cup {Reply("SUCCESS", "ok", k) : k \in {"sandboxkey1", "sandboxkey2"}}

NoSignCall == [op |-> "none", apiKey |-> "", signType |-> "", bm |-> <<>>,
               reply |-> TransportFailure, sent |-> SignKeyRequest("", "", Lit("")),
               sign |-> Lit(""), err |-> NoErr]

SignInit == call = NoSignCall

CallGetReleaseSign ==
    \E apiKey \in ApiKeys, signType \in SignTypes, bm \in BodyMaps :
        call' = [NoSignCall EXCEPT !.op = "getReleaseSign", !.apiKey = apiKey,
                                   !.signType = signType, !.bm = bm,
                                   !.sign = getReleaseSign(apiKey, signType, bm)]

\* gotil.GetRandomString picks the nonce, the provider the reply
CallGetSignBoxSign ==
    \E apiKey \in ApiKeys, bm \in BodyMaps, nonceStr \in Nonces, reply \in Replies :
        LET r == getSignBoxSign(MchIdOfClient, apiKey, bm, nonceStr, reply)
            nbm == [k \in {"mch_id", "nonce_str"} |->
                       IF k = "mch_id" THEN MchIdOfClient ELSE nonceStr]
        IN  call' = [NoSignCall EXCEPT
                        !.op = "getSignBoxSign", !.apiKey = apiKey, !.bm = bm,
                        !.reply = reply,
                        !.sent = SignKeyRequest(MchIdOfClient, nonceStr,
                                                getReleaseSign(apiKey, SignType_MD5, nbm)),
                        !.sign = r.sign, !.err = r.err]

SignNext ==
    \/ CallGetReleaseSign /\ UNCHANGED <<seqVars, concVars>>
    \/ CallGetSignBoxSign /\ UNCHANGED <<seqVars, concVars>>

(***************************************************************************)
(* The specifications; each leaves the variables of the others alone.      *)
(***************************************************************************)
SeqIdle ==
    /\ w = [certificate |-> NilPtr, MchId |-> MchIdOfClient]
    /\ last = NoCall
    /\ registered = [kind |-> "none", id |-> 0]

ConcIdle ==
    /\ certPtr = NilAddr
    /\ heap = <<>>
    /\ mu = [writer |-> 0, readers |-> {}]
    /\ th = <<>>
    /\ hist = [calls |-> 0]

SignIdle == call = NoSignCall

SeqStart == SeqInit /\ ConcIdle /\ SignIdle
ConcStart == ConcInit /\ SeqIdle /\ SignIdle
SignStart == SignInit /\ SeqIdle /\ ConcIdle

SeqSpec == SeqStart /\ [][SeqNext]_vars
ConcSpec == ConcStart /\ [][ConcNext]_vars
SignSpec == SignStart /\ [][SignNext]_vars

(***************************************************************************)
(* Claims about the credential loader, one caller (SeqSpec).               *)
(***************************************************************************)
IsRegistration(l) ==
    l.op \in {"AddCertFilePath", "AddCertFileContent", "AddCertPemFileContent",
              "AddCertPkcs12FileContent"}
NoArguments(l) == AllNil(l.certFile, l.keyFile, l.pkcs12File)
ConfigurationError(e) == e.op = "check"

\* C1: registering a valid PEM pair (paths or bytes, no PKCS#12 argument)
\* returns no error and caches the certificate parsed from the pair, and the
\* no-argument addCertConfig that follows, with no other registration in
\* between, returns a config whose only certificate is that one.
C1_ValidPemPairIsServed ==
    /\ \A i \in Identities :
          IsRegistration(last) /\ last.pkcs12File.kind = "nil"
              /\ ValidPemPair(last.certFile, last.keyFile, i)
          => last.err = NoErr /\ w.certificate = Ptr(PairOf(i))
    /\ last.op = "addCertConfig" /\ registered.kind = "pem"
          => /\ last.err = NoErr
             /\ ~last.tlsConfig.isnil
             /\ last.tlsConfig.Certificates = <<PairOf(registered.id)>>

C1_Witness ==
    /\ last.op = "addCertConfig"
    /\ registered = [kind |-> "pem", id |-> NumIdentities]
    /\ last.tlsConfig.Certificates = <<PairOf(NumIdentities)>>

\* C2: a call with at least one argument returns a configuration error unless
\* its arguments are (cert and key, no PKCS#12) or (PKCS#12, no cert, no key).
C2_OtherCombinationsRejected ==
    last.op = "AddCertFilePath" /\ ~NoArguments(last)
        /\ ~(last.certFile.kind # "nil" /\ last.keyFile.kind # "nil"
                /\ last.pkcs12File.kind = "nil")
        /\ ~(last.certFile.kind = "nil" /\ last.keyFile.kind = "nil"
                /\ last.pkcs12File.kind # "nil")
    => ConfigurationError(last.err)

\* C3: AddCertFileContent(nil, nil, p12) with a valid archive returns no error
\* and caches what AddCertPkcs12FileContent(p12) caches.
C3_Pkcs12ContentAlone ==
    \A i \in Identities :
        last.op = "AddCertFileContent"
            /\ last.certFile = Bytes(NilBytes) /\ last.keyFile = Bytes(NilBytes)
            /\ last.pkcs12File = Bytes(Pfx(i, MchIdOfClient))
        => /\ last.err = NoErr
           /\ \E r \in AddCertPkcs12FileContent([w EXCEPT !.certificate = last.before],
                                                Pfx(i, MchIdOfClient)) :
                  w.certificate = r.client.certificate

\* C6 as stated: the no-argument call on an empty cache reports no error,
\* returns no credential and leaves the cache empty.
C6_NoArgumentNoOp ==
    (IsRegistration(last) \/ last.op = "addCertConfig")
        /\ NoArguments(last) /\ last.before.isnil
    => last.err = NoErr /\ last.tlsConfig.isnil /\ w.certificate.isnil

\* C6 amended: the no-argument call on an empty cache returns no credential,
\* leaves the cache empty, and reports the error "cert files must all nil or
\* all not nil".
C6_NoArgumentFails ==
    (IsRegistration(last) \/ last.op = "addCertConfig")
        /\ NoArguments(last) /\ last.before.isnil
    => /\ last.err = Err("", "cert files must all nil or all not nil")
       /\ last.tlsConfig.isnil
       /\ w.certificate.isnil

C6_Witness ==
    /\ last.op = "AddCertFilePath" /\ NoArguments(last) /\ last.before.isnil
    /\ last.err # NoErr
    /\ w.certificate.isnil

\* C7: on the PEM path, a failed read of the certificate file or of the key
\* file is returned as an I/O error wrapping that read failure.
ReadFails(file) == file.kind = "string" /\ ReadFile(file.str).err # NoErr
C7_ReadFailureReturned ==
    IsRegistration(last) /\ ~ConfigurationError(last.err)
        /\ last.certFile.kind # "nil" /\ last.keyFile.kind # "nil"
        /\ (ReadFails(last.certFile) \/ ReadFails(last.keyFile))
    => /\ last.err.op = "ioutil.ReadFile"
       /\ \/ ReadFails(last.certFile)
                /\ last.err = Wrap("ioutil.ReadFile", ReadFile(last.certFile.str).err)
          \/ ReadFails(last.keyFile)
                /\ last.err = Wrap("ioutil.ReadFile", ReadFile(last.keyFile.str).err)

\* C10: a call that returns an error leaves the cached credential as it was;
\* the cache is empty as long as no registration has succeeded, and otherwise
\* holds the credential of the latest successful registration.
C10_FailedCallKeepsCache ==
    /\ last.err # NoErr => w.certificate = last.before
    /\ registered.kind = "none" => w.certificate.isnil
    /\ registered.kind \in {"pem", "pkcs12"} => w.certificate = Ptr(PairOf(registered.id))

C10_Witness ==
    /\ IsRegistration(last) /\ last.err.op = "tls.LoadX509KeyPair"
    /\ registered.kind = "pkcs12"
    /\ w.certificate = Ptr(PairOf(registered.id))

(***************************************************************************)
(* Claims about the cache under concurrent calls (ConcSpec).               *)
(***************************************************************************)
\* C4: a no-argument addCertConfig that runs while other goroutines register
\* returns, in full, a credential that was cached at some time during the
\* call (the older or a newer one), never a mixture of two; it fails only if
\* the cache was empty when it looked.
C4_ReadsAreWhole ==
    \A t \in Threads :
        th[t].op = "get" /\ th[t].pc = "idle"
        => IF th[t].err = NoErr
           THEN /\ ~th[t].result.isnil
                /\ \E i \in th[t].seen \ {0} :
                      th[t].result.Certificates = <<PairOf(i)>>
           ELSE th[t].result.isnil /\ 0 \in th[t].seen

C4_Witness ==
    \E t \in Threads :
        /\ th[t].op = "get" /\ th[t].pc = "idle" /\ th[t].err = NoErr
        /\ Cardinality(th[t].seen \ {0}) = 2
        /\ th[t].result.Certificates = <<PairOf(hist.newest)>>

\* C9: once the latest registration of new material has returned, the cache
\* holds its credential; a concurrent no-argument AddCertFilePath cannot put
\* the older credential back.
C9_RegistrationNotReverted ==
    hist.returned
    => certPtr # NilAddr /\ heap[certPtr] = PairOf(hist.newest)

(***************************************************************************)
(* Claims about the signing functions (SignSpec).                          *)
(***************************************************************************)
Failed(reply) == reply.errs = <<>> /\ reply.ReturnCode = "FAIL"
GaveKey(reply) == reply.errs = <<>> /\ reply.ReturnCode # "FAIL"

\* C5 as stated: on return_code=FAIL with return_msg=X getSignBoxSign fails
\* with the message X and no signature; on a reply with a key it returns that
\* key unchanged.
C5_SandboxSignReturnsKey ==
    call.op = "getSignBoxSign"
    => /\ Failed(call.reply)
            => call.err.msg = call.reply.ReturnMsg /\ call.sign = Lit("")
       /\ GaveKey(call.reply)
            => call.err = NoErr /\ call.sign = Lit(call.reply.SandboxSignkey)

\* C5 amended: on return_code=FAIL with return_msg=X getSignBoxSign fails
\* with an error whose whole message is X and no signature; on a reply with
\* a key K it returns the upper-case hex MD5 of the parameters' signing
\* string ending in key=K.
C5_SandboxSignUsesKey ==
    call.op = "getSignBoxSign"
    => /\ Failed(call.reply)
            => /\ call.err = [op |-> "", msg |-> call.reply.ReturnMsg, path |-> NULL]
               /\ call.sign = Lit("")
       /\ GaveKey(call.reply)
            => /\ call.err = NoErr
               /\ call.sign.enc = "HEX-UPPER"
               /\ call.sign.digest.alg = "MD5"
               /\ call.sign.digest.msg.key = Lit(call.reply.SandboxSignkey)
               /\ call.sign.digest.msg.params =
                      {<<k, call.bm[k]>> : k \in {x \in {"appid"} : call.bm[x] # ""}}

C5_Witness ==
    /\ call.op = "getSignBoxSign"
    /\ call.reply = Reply("SUCCESS", "ok", "sandboxkey2")
    /\ call.sign.digest.msg.key = Lit("sandboxkey2")
    /\ call.bm["appid"] = "2"

\* C8 as stated: HMAC-SHA256 keyed with the API key exactly when signType is
\* HMAC-SHA256, MD5 exactly when signType is MD5, and neither digest for any
\* other signType.
C8_NoFallback ==
    call.op = "getReleaseSign"
    => /\ call.sign.enc = "HEX-UPPER"
       /\ call.sign.digest.alg = "HMAC-SHA256" <=> call.signType = SignType_HMAC_SHA256
       /\ call.sign.digest.alg = "MD5" <=> call.signType = SignType_MD5

\* C8 amended: HMAC-SHA256 keyed with the API key exactly when signType is
\* HMAC-SHA256; MD5 for every other signType, named MD5 or not.
C8_Md5Otherwise ==
    call.op = "getReleaseSign"
    => /\ call.sign.enc = "HEX-UPPER"
       /\ call.sign.digest.msg.key = call.apiKey
       /\ IF call.signType = SignType_HMAC_SHA256
          THEN call.sign.digest.alg = "HMAC-SHA256" /\ call.sign.digest.mackey = call.apiKey
          ELSE call.sign.digest.alg = "MD5" /\ call.sign.digest.mackey = ""

C8_Witness ==
    /\ call.op = "getReleaseSign"
    /\ call.signType = "SHA1"
    /\ call.sign.digest.alg = "MD5"

====
